---- MODULE Spec2Model ----
(***************************************************************************)
(* Model of the any-dyn crate: type-erased trait objects (AnyDynPtr,       *)
(* AnyDyn, AnyDynMut), trait-object identities (DynTypeId) and the         *)
(* traitcast helpers (AsTraitObject, cast_trait_object, match_dyn_type_id).*)
(***************************************************************************)
EXTENDS Bags, FiniteSets, Integers, Sequences, TLC

(***************************************************************************)
(* Bounds of the model.                                                    *)
(***************************************************************************)
\* most erased pointers (AnyDyn, AnyDynMut, AnyDynPtr values) alive at once
MaxWrappers == 2
\* most references obtained from cast alive at once
MaxRefs == 2
\* longest trait list handed to match_dyn_type_id
MaxList == 2
\* most handles in the client's table of providers
MaxObjs == 4

(***************************************************************************)
(* The traits and the implementing types of the crate's tests and docs.    *)
(***************************************************************************)
Traits == {"AsTraitObject", "WithMessage", "SomeTrait", "SomeOtherTrait"}

ConcreteTypes == {"Implementer", "NotImplementer", "SomeStruct"}

\* the traits each concrete type has an impl block for
Impls(t) ==
  CASE t = "Implementer"    -> {"AsTraitObject", "WithMessage"}
    [] t = "NotImplementer" -> {"AsTraitObject"}
    [] t = "SomeStruct"     -> {"AsTraitObject", "SomeTrait", "SomeOtherTrait"}

\* the traits the client views each concrete type through when it erases:
\* the `self as &dyn Trait` coercions of the tests and the docs
Coercions(t) == Impls(t) \ {"AsTraitObject"}

\* the instances the client owns: address |-> concrete type
Heap == <<"Implementer", "NotImplementer", "SomeStruct",
          "Implementer", "NotImplementer">>

Addrs == DOMAIN Heap

\* the instances the clients of the core and of the macros work on: one of
\* each concrete type
Instances == {1, 2, 3}

(***************************************************************************)
(* core::any::TypeId::of::<dyn Trait>(): a hash of the trait object type.  *)
(***************************************************************************)
\* an identity that two traits share
TypeIdOf_colliding(trait) ==
  CASE trait = "AsTraitObject"  -> 11
    [] trait = "WithMessage"    -> 37
    [] trait = "SomeTrait"      -> 37
    [] trait = "SomeOtherTrait" -> 41

TypeIdOf(trait) ==
  CASE trait = "AsTraitObject"  -> 11
    [] trait = "WithMessage"    -> 23
    [] trait = "SomeTrait"      -> 37
    [] trait = "SomeOtherTrait" -> 41

\* DynTypeId::of::<Dyn>()
DynTypeId_of(trait) == [type_id |-> TypeIdOf(trait)]

DynTypeIds == {DynTypeId_of(t) : t \in Traits}

(***************************************************************************)
(* Vtables.  The metadata of a `dyn Trait` pointer is the address of the   *)
(* vtable the compiler emitted for (concrete type, trait).                 *)
(***************************************************************************)
TypeBase(t) ==
  CASE t = "Implementer"    -> 100
    [] t = "NotImplementer" -> 200
    [] t = "SomeStruct"     -> 300

VTableAddr(t, trait) == TypeBase(t) + TypeIdOf(trait)

VTables == {[ctype |-> t, trait |-> i] : t \in ConcreteTypes, i \in Traits}

\* what is stored at a vtable address
VTableAt(addr) ==
  CHOOSE v \in VTables : VTableAddr(v.ctype, v.trait) = addr

\* core::ptr::metadata(from) of a `&dyn Trait` to the instance at address a
DynMetadataOf(a, trait) ==
  [dyn |-> trait, vtable_ptr |-> VTableAddr(Heap[a], trait)]

\* `&instance as &dyn Trait`: the fat pointer to instance a through trait
DynRef(a, trait) ==
  [dyn |-> trait, thin |-> a, metadata |-> DynMetadataOf(a, trait)]

\* the trait-object references the client erases
DynRefs ==
  UNION {{DynRef(a, i) : i \in Coercions(Heap[a])} : a \in Addrs}

\* calling a method through a trait-object reference: dispatch through the
\* vtable the metadata points at.  Reading a vtable of another trait as this
\* trait's vtable is undefined behaviour: any outcome.
MethodResult(t, trait) ==
  IF t = "Implementer" /\ trait = "WithMessage"
    THEN "hello from implementer"
    ELSE "()"

CallResults == {"hello from implementer", "()", "garbage"}

CallOutcomes(ref) ==
  LET v == VTableAt(ref.metadata.vtable_ptr)
  IN IF v.trait = ref.dyn /\ ref.metadata.dyn = ref.dyn
       THEN {MethodResult(v.ctype, v.trait)}
       ELSE CallResults

(***************************************************************************)
(* Option and panics.                                                      *)
(***************************************************************************)
Range(f) == {f[i] : i \in DOMAIN f}

None == [some |-> FALSE]

Some(v) == [some |-> TRUE, val |-> v]

Panic == [panic |-> TRUE]

Ok(v) == [panic |-> FALSE, val |-> v]

(***************************************************************************)
(* Layout::new::<DynMetadata<Dyn>>() on the platform the crate is built    *)
(* for.  The crate documents that it relies on all of them being equal     *)
(* and asserts it in AnyDynPtr::new.                                       *)
(***************************************************************************)
PtrLayout == [size |-> 8, align |-> 8]

WideLayout == [size |-> 16, align |-> 8]

Layouts == {PtrLayout, WideLayout}

\* Layout::new::<DynMetadata<()>>()
ErasedLayout == PtrLayout

(***************************************************************************)
(* AnyDynPtr                                                               *)
(***************************************************************************)
\* AnyDynPtr::new with the metadata copy gone wrong: the holding area keeps
\* the bytes of another vtable of the same type
AnyDynPtr_new_stale_metadata(from, layouts) ==
  IF layouts[from.dyn] # ErasedLayout
    THEN Panic
    ELSE LET stale == VTableAddr(Heap[from.thin], "AsTraitObject")
         IN Ok([thin |-> from.thin,
                metadata |-> [dyn |-> "()", vtable_ptr |-> stale],
                type_id |-> TypeIdOf(from.dyn)])

\* AnyDynPtr::new without the assertion on the layouts
AnyDynPtr_new_unasserted(from, layouts) ==
  Ok([thin |-> from.thin,
      metadata |-> [dyn |-> "()", vtable_ptr |-> from.metadata.vtable_ptr],
      type_id |-> TypeIdOf(from.dyn)])

\* AnyDynPtr::new::<Dyn>(from) on a platform with the given layouts
AnyDynPtr_new(from, layouts) ==
  IF layouts[from.dyn] # ErasedLayout
    THEN Panic
    ELSE LET thin == from.thin
             metadata == from.metadata
             type_id == TypeIdOf(from.dyn)
             erased_metadata == [dyn |-> "()", vtable_ptr |-> metadata.vtable_ptr]
         IN Ok([thin |-> thin, metadata |-> erased_metadata, type_id |-> type_id])

\* AnyDynPtr::cast with the comparison of the identities inverted
AnyDynPtr_cast_inverted(self, Dyn) ==
  IF TypeIdOf(Dyn) = self.type_id
    THEN None
    ELSE LET metadata == [dyn |-> Dyn, vtable_ptr |-> self.metadata.vtable_ptr]
         IN Some([dyn |-> Dyn, thin |-> self.thin, metadata |-> metadata])

\* AnyDynPtr::cast without the comparison of the identities
AnyDynPtr_cast_unchecked(self, Dyn) ==
  LET metadata == [dyn |-> Dyn, vtable_ptr |-> self.metadata.vtable_ptr]
  IN Some([dyn |-> Dyn, thin |-> self.thin, metadata |-> metadata])

\* AnyDynPtr::cast::<Dyn>(&self)
AnyDynPtr_cast(self, Dyn) ==
  IF TypeIdOf(Dyn) # self.type_id
    THEN None
    ELSE LET metadata == [dyn |-> Dyn, vtable_ptr |-> self.metadata.vtable_ptr]
         IN Some([dyn |-> Dyn, thin |-> self.thin, metadata |-> metadata])

(***************************************************************************)
(* AnyDyn and AnyDynMut: an AnyDynPtr with a lifetime and an access mode.  *)
(***************************************************************************)
\* AnyDyn::from_raw(ptr)
AnyDyn_from_raw(ptr) == [kind |-> "AnyDyn", ptr |-> ptr]

\* AnyDyn::new capturing a temporary copy of the referent in place of the
\* referent
AnyDyn_new_of_copy(from, layouts) ==
  LET copies == {a \in Addrs : a # from.thin /\ Heap[a] = Heap[from.thin]}
      copy == IF copies = {} THEN from.thin ELSE CHOOSE a \in copies : TRUE
      ptr == AnyDynPtr_new([from EXCEPT !.thin = copy], layouts)
  IN IF ptr.panic THEN Panic ELSE Ok(AnyDyn_from_raw(ptr.val))

\* AnyDyn::new(from: &'a Dyn)
AnyDyn_new(from, layouts) ==
  LET ptr == AnyDynPtr_new(from, layouts)
  IN IF ptr.panic THEN Panic ELSE Ok(AnyDyn_from_raw(ptr.val))

\* AnyDyn::cast trusting the provider: the identity is not compared
AnyDyn_cast_trusting(self, Dyn) ==
  LET ptr == AnyDynPtr_cast_unchecked(self.ptr, Dyn)
  IN Some([ref |-> ptr.val, mode |-> "shared"])

\* AnyDyn::cast::<Dyn>(self): the pointer, if any, becomes a `&'a Dyn`
AnyDyn_cast(self, Dyn) ==
  LET ptr == AnyDynPtr_cast(self.ptr, Dyn)
  IN IF ptr.some THEN Some([ref |-> ptr.val, mode |-> "shared"]) ELSE None

\* AnyDyn::as_ptr handing out the addresses without the identity
AnyDyn_as_ptr_untagged(self) == [self.ptr EXCEPT !.type_id = 0]

\* AnyDyn::as_ptr(self)
AnyDyn_as_ptr(self) == self.ptr

\* AnyDynMut::from_raw(ptr)
AnyDynMut_from_raw(ptr) == [kind |-> "AnyDynMut", ptr |-> ptr]

\* AnyDynMut::new(from: &'a mut Dyn)
AnyDynMut_new(from, layouts) ==
  LET ptr == AnyDynPtr_new(from, layouts)
  IN IF ptr.panic THEN Panic ELSE Ok(AnyDynMut_from_raw(ptr.val))

\* AnyDynMut::cast::<Dyn>(self): the pointer, if any, becomes a `&'a mut Dyn`
AnyDynMut_cast(self, Dyn) ==
  LET ptr == AnyDynPtr_cast(self.ptr, Dyn)
  IN IF ptr.some THEN Some([ref |-> ptr.val, mode |-> "mut"]) ELSE None

\* AnyDynMut::as_ptr(self)
AnyDynMut_as_ptr(self) == self.ptr

\* a cast that clears the tag of the AnyDynPtr it was called on
SelfAfterCast_tag_cleared(self, Dyn) == [self EXCEPT !.type_id = 0]

\* the AnyDynPtr behind `&self` once AnyDynPtr::cast has returned: cast
\* borrows it shared and writes none of its fields
SelfAfterCast(self, Dyn) == self

\* an AnyDynPtr held by the client, next to the AnyDyn and AnyDynMut it holds
RawWrapper(ptr) == [kind |-> "AnyDynPtr", ptr |-> ptr]

\* cast on any of the three: AnyDynPtr::cast itself hands out a NonNull<Dyn>
Wrapper_cast(w, Dyn) ==
  CASE w.kind = "AnyDyn"    -> AnyDyn_cast(w, Dyn)
    [] w.kind = "AnyDynMut" -> AnyDynMut_cast(w, Dyn)
    [] w.kind = "AnyDynPtr" ->
         LET ptr == AnyDynPtr_cast(w.ptr, Dyn)
         IN IF ptr.some THEN Some([ref |-> ptr.val, mode |-> "raw"]) ELSE None

\* #[derive(Clone, Copy)]: which of the three a caller may duplicate at will
IsCopy(kind) == kind \in {"AnyDyn", "AnyDynMut", "AnyDynPtr"}

(***************************************************************************)
(* traitcast                                                               *)
(***************************************************************************)
\* the chain with the last matching entry winning instead of the first
RECURSIVE MatchArm_last_wins(_, _, _)
MatchArm_last_wins(type_id, traits, i) ==
  IF i > Len(traits)
    THEN 0
    ELSE LET later == MatchArm_last_wins(type_id, traits, i + 1)
         IN IF later # 0
              THEN later
              ELSE IF type_id = DynTypeId_of(traits[i]) THEN i ELSE 0

\* the chain cut after its first entry: a lone `if`/`else`
MatchArm_first_only(type_id, traits, i) ==
  IF i > Len(traits)
    THEN 0
    ELSE IF type_id = DynTypeId_of(traits[i]) THEN i ELSE 0

\* the arm the else-if chain of __match_dyn_type_id (and of its _mut twin)
\* takes, looking from entry i onwards: the entry's index, 0 for the final else
RECURSIVE MatchArm(_, _, _)
MatchArm(type_id, traits, i) ==
  IF i > Len(traits)
    THEN 0
    ELSE IF type_id = DynTypeId_of(traits[i])
      THEN i
      ELSE MatchArm(type_id, traits, i + 1)

\* match_dyn_type_id!(self, type_id => traits...)
match_dyn_type_id(self, type_id, traits, layouts) ==
  LET arm == MatchArm(type_id, traits, 1)
  IN IF arm = 0
       THEN Ok(None)
       ELSE LET w == AnyDyn_new(DynRef(self, traits[arm]), layouts)
            IN IF w.panic THEN Panic ELSE Ok(Some(w.val))

\* match_dyn_type_id_mut!(self, type_id => traits...)
match_dyn_type_id_mut(self, type_id, traits, layouts) ==
  LET arm == MatchArm(type_id, traits, 1)
  IN IF arm = 0
       THEN Ok(None)
       ELSE LET w == AnyDynMut_new(DynRef(self, traits[arm]), layouts)
            IN IF w.panic THEN Panic ELSE Ok(Some(w.val))

\* a provided method that offers the trait the implementer is known to
\* implement, AsTraitObject itself
AsTraitObject_default_structural(self, type_id) ==
  match_dyn_type_id(self, type_id, <<"AsTraitObject">>,
                    [i \in Traits |-> ErasedLayout])

\* AsTraitObject::as_trait_object, the provided method: supports nothing
AsTraitObject_default(self, type_id) == Ok(None)

\* which concrete types override as_trait_object, and with which trait list
OverridesAsTraitObject(t) == t \in {"Implementer", "SomeStruct"}

ProvidedTraits(t) ==
  CASE t = "Implementer" -> <<"WithMessage">>
    [] t = "SomeStruct"  -> <<"SomeTrait", "SomeOtherTrait">>
    [] OTHER             -> <<>>

\* obj.as_trait_object(type_id) bound statically to the provided method
as_trait_object_provided_only(self, type_id, layouts) ==
  AsTraitObject_default(self, type_id)

\* obj.as_trait_object(type_id) on a `&dyn AsTraitObject`: dynamic dispatch
as_trait_object(self, type_id, layouts) ==
  IF OverridesAsTraitObject(Heap[self])
    THEN match_dyn_type_id(self, type_id, ProvidedTraits(Heap[self]), layouts)
    ELSE AsTraitObject_default(self, type_id)

\* cast_trait_object asking the provider for the identity of one fixed trait
CastQuery_fixed(Dyn) == DynTypeId_of("WithMessage")

\* the identity cast_trait_object::<Dyn> hands to the provider
CastQuery(Dyn) == DynTypeId_of(Dyn)

\* cast_trait_object unwrapping the provider's answer instead of passing an
\* empty answer on
cast_trait_object_expect(obj, Dyn, layouts) ==
  LET any == as_trait_object(obj, CastQuery(Dyn), layouts)
  IN IF any.panic \/ ~any.val.some
       THEN Panic
       ELSE Ok(AnyDyn_cast(any.val.val, Dyn))

\* cast_trait_object::<Dyn>(obj)
cast_trait_object(obj, Dyn, layouts) ==
  LET any == as_trait_object(obj, CastQuery(Dyn), layouts)
  IN IF any.panic
       THEN Panic
       ELSE IF ~any.val.some
         THEN Ok(None)
         ELSE Ok(AnyDyn_cast(any.val.val, Dyn))

\* a provider written by hand that answers every identity through K:
\* fn as_trait_object(&self, _: DynTypeId) -> Option<AnyDyn<'_>>
\*   { Some(AnyDyn::new(self as &dyn K)) }
as_trait_object_through(self, type_id, K, layouts) ==
  LET w == AnyDyn_new(DynRef(self, K), layouts)
  IN IF w.panic THEN Panic ELSE Ok(Some(w.val))

\* cast_trait_object::<Dyn>(obj) on a provider that answers through K
cast_trait_object_through(obj, Dyn, K, layouts) ==
  LET any == as_trait_object_through(obj, CastQuery(Dyn), K, layouts)
  IN IF any.panic
       THEN Panic
       ELSE IF ~any.val.some
         THEN Ok(None)
         ELSE Ok(AnyDyn_cast(any.val.val, Dyn))

(***************************************************************************)
(* State of a client program using the crate.                              *)
(***************************************************************************)
VARIABLES
  layouts,    \* Layout of DynMetadata<dyn Trait> per trait on this platform
  wrappers,   \* bag of the AnyDyn, AnyDynMut and AnyDynPtr values alive
  refs,       \* bag of the references and pointers cast has handed out
  call,       \* the last operation called and its arguments
  ret,        \* what it returned
  aborted,    \* a panic has stopped the program
  objs,       \* the client's table of handles: owning pointers to instances
  results     \* what the client has found out about each handle

vars == <<layouts, wrappers, refs, call, ret, aborted, objs, results>>

\* the platform the crate supports: every DynMetadata has the erased layout
UniformLayouts == [i \in Traits |-> ErasedLayout]

ThinOf(w) == w.ptr.thin

\* an exclusive borrow of the instance at a is alive
ExclBorrowed(a) ==
  \/ \E w \in BagToSet(wrappers) : w.kind = "AnyDynMut" /\ ThinOf(w) = a
  \/ \E r \in BagToSet(refs) : r.mode = "mut" /\ r.ref.thin = a

\* a shared borrow of the instance at a is alive
SharedBorrowed(a) ==
  \/ \E w \in BagToSet(wrappers) : w.kind = "AnyDyn" /\ ThinOf(w) = a
  \/ \E r \in BagToSet(refs) : r.mode = "shared" /\ r.ref.thin = a

\* the borrow checker lets the client take `&instance` / `&mut instance`
CanBorrow(a) == ~ExclBorrowed(a)

CanBorrowMut(a) == ~ExclBorrowed(a) /\ ~SharedBorrowed(a)

RoomForWrapper == BagCardinality(wrappers) < MaxWrappers

RoomForRef == BagCardinality(refs) < MaxRefs

Put(bag, x) == bag (+) SetToBag({x})

Take(bag, x) == bag (-) SetToBag({x})

Init ==
  /\ layouts = UniformLayouts
  /\ wrappers = EmptyBag
  /\ refs = EmptyBag
  /\ call = [fn |-> "start"]
  /\ ret = None
  /\ aborted = FALSE
  /\ objs = <<>>
  /\ results = <<>>

\* the outcome of a constructor: a panic stops the program, a value is kept
Constructed(r) ==
  IF r.panic
    THEN /\ aborted' = TRUE
         /\ UNCHANGED wrappers
    ELSE /\ RoomForWrapper
         /\ wrappers' = Put(wrappers, r.val)
         /\ UNCHANGED aborted

\* AnyDyn::new(&instance as &dyn Trait)
AnyDynNew(a, Dyn) ==
  /\ ~aborted
  /\ DynRef(a, Dyn) \in DynRefs
  /\ CanBorrow(a)
  /\ LET r == AnyDyn_new(DynRef(a, Dyn), layouts)
     IN /\ Constructed(r)
        /\ call' = [fn |-> "AnyDyn::new", from |-> DynRef(a, Dyn)]
        /\ ret' = r
  /\ UNCHANGED <<layouts, objs, results, refs>>

\* AnyDynMut::new(&mut instance as &mut dyn Trait)
AnyDynMutNew(a, Dyn) ==
  /\ ~aborted
  /\ DynRef(a, Dyn) \in DynRefs
  /\ CanBorrowMut(a)
  /\ LET r == AnyDynMut_new(DynRef(a, Dyn), layouts)
     IN /\ Constructed(r)
        /\ call' = [fn |-> "AnyDynMut::new", from |-> DynRef(a, Dyn)]
        /\ ret' = r
  /\ UNCHANGED <<layouts, objs, results, refs>>

\* AnyDynPtr::new(NonNull::from(&instance as &dyn Trait))
AnyDynPtrNew(a, Dyn) ==
  /\ ~aborted
  /\ DynRef(a, Dyn) \in DynRefs
  /\ LET p == AnyDynPtr_new(DynRef(a, Dyn), layouts)
         r == IF p.panic THEN Panic ELSE Ok(RawWrapper(p.val))
     IN /\ Constructed(r)
        /\ call' = [fn |-> "AnyDynPtr::new", from |-> DynRef(a, Dyn)]
        /\ ret' = r
  /\ UNCHANGED <<layouts, objs, results, refs>>

\* `let copy = w;` on a value of a Copy type
Copy(w) ==
  /\ ~aborted
  /\ w \in BagToSet(wrappers)
  /\ IsCopy(w.kind)
  /\ RoomForWrapper
  /\ wrappers' = Put(wrappers, w)
  /\ call' = [fn |-> "copy", self |-> w]
  /\ ret' = Some(w)
  /\ UNCHANGED <<layouts, objs, results, refs, aborted>>

\* w.as_ptr() on an AnyDyn or AnyDynMut
AsPtr(w) ==
  /\ ~aborted
  /\ w \in BagToSet(wrappers)
  /\ w.kind \in {"AnyDyn", "AnyDynMut"}
  /\ RoomForWrapper
  /\ LET p == IF w.kind = "AnyDyn" THEN AnyDyn_as_ptr(w) ELSE AnyDynMut_as_ptr(w)
     IN /\ wrappers' = Put(wrappers, RawWrapper(p))
        /\ ret' = Some(RawWrapper(p))
  /\ call' = [fn |-> "as_ptr", self |-> w]
  /\ UNCHANGED <<layouts, objs, results, refs, aborted>>

\* unsafe { AnyDyn::from_raw(p) }: the caller answers for the lifetime, so
\* the instance must be borrowable as the new wrapper borrows it
AnyDynFromRaw(w) ==
  /\ ~aborted
  /\ w \in BagToSet(wrappers)
  /\ w.kind = "AnyDynPtr"
  /\ CanBorrow(ThinOf(w))
  /\ RoomForWrapper
  /\ wrappers' = Put(wrappers, AnyDyn_from_raw(w.ptr))
  /\ call' = [fn |-> "AnyDyn::from_raw", self |-> w]
  /\ ret' = Some(AnyDyn_from_raw(w.ptr))
  /\ UNCHANGED <<layouts, objs, results, refs, aborted>>

\* unsafe { AnyDynMut::from_raw(p) }
AnyDynMutFromRaw(w) ==
  /\ ~aborted
  /\ w \in BagToSet(wrappers)
  /\ w.kind = "AnyDynPtr"
  /\ CanBorrowMut(ThinOf(w))
  /\ RoomForWrapper
  /\ wrappers' = Put(wrappers, AnyDynMut_from_raw(w.ptr))
  /\ call' = [fn |-> "AnyDynMut::from_raw", self |-> w]
  /\ ret' = Some(AnyDynMut_from_raw(w.ptr))
  /\ UNCHANGED <<layouts, objs, results, refs, aborted>>

\* what is left of the caller's wrappers once w was passed by value
AfterMove(bag, w) == IF IsCopy(w.kind) THEN bag ELSE Take(bag, w)

\* w.cast::<Dyn>() on any of the three: AnyDyn and AnyDynMut are passed by
\* value, an AnyDynPtr is borrowed
Cast(w, Dyn) ==
  /\ ~aborted
  /\ w \in BagToSet(wrappers)
  /\ LET r == Wrapper_cast(w, Dyn)
     IN /\ IF r.some
             THEN RoomForRef /\ refs' = Put(refs, r.val)
             ELSE UNCHANGED refs
        /\ ret' = r
  /\ wrappers' = IF w.kind = "AnyDynPtr"
                  THEN Put(Take(wrappers, w), RawWrapper(SelfAfterCast(w.ptr, Dyn)))
                  ELSE AfterMove(wrappers, w)
  /\ call' = [fn |-> "cast", self |-> w, dyn |-> Dyn]
  /\ UNCHANGED <<layouts, objs, results, aborted>>

\* a method call through a reference cast has handed out
CallMethod(r) ==
  /\ ~aborted
  /\ r \in BagToSet(refs)
  /\ \E out \in CallOutcomes(r.ref) : ret' = Some(out)
  /\ call' = [fn |-> "method", ref |-> r]
  /\ UNCHANGED <<layouts, objs, results, wrappers, refs, aborted>>

\* a wrapper goes out of scope
DropWrapper(w) ==
  /\ ~aborted
  /\ w \in BagToSet(wrappers)
  /\ wrappers' = Take(wrappers, w)
  /\ call' = [fn |-> "drop"]
  /\ ret' = None
  /\ UNCHANGED <<layouts, objs, results, refs, aborted>>

\* a reference goes out of scope
DropRef(r) ==
  /\ ~aborted
  /\ r \in BagToSet(refs)
  /\ refs' = Take(refs, r)
  /\ call' = [fn |-> "drop"]
  /\ ret' = None
  /\ UNCHANGED <<layouts, objs, results, wrappers, aborted>>

Next ==
  \/ \E a \in Instances, Dyn \in Traits : AnyDynNew(a, Dyn)
  \/ \E a \in Instances, Dyn \in Traits : AnyDynMutNew(a, Dyn)
  \/ \E a \in Instances, Dyn \in Traits : AnyDynPtrNew(a, Dyn)
  \/ \E w \in BagToSet(wrappers) : Copy(w)
  \/ \E w \in BagToSet(wrappers) : AsPtr(w)
  \/ \E w \in BagToSet(wrappers) : AnyDynFromRaw(w)
  \/ \E w \in BagToSet(wrappers) : AnyDynMutFromRaw(w)
  \/ \E w \in BagToSet(wrappers), Dyn \in Traits : Cast(w, Dyn)
  \/ \E r \in BagToSet(refs) : CallMethod(r)
  \/ \E w \in BagToSet(wrappers) : DropWrapper(w)
  \/ \E r \in BagToSet(refs) : DropRef(r)

Spec == Init /\ [][Next]_vars

(***************************************************************************)
(* The same client built by a future compiler, for which the metadata of   *)
(* some of the traits it erases has outgrown DynMetadata<()>.  (The        *)
(* platform on which all layouts agree is the one of Init.)                *)
(***************************************************************************)
Platforms ==
  {p \in [Traits -> Layouts] :
     /\ p["AsTraitObject"] = ErasedLayout
     /\ \E i \in Traits : p[i] # ErasedLayout}

InitPlatform ==
  /\ layouts \in Platforms
  /\ wrappers = EmptyBag
  /\ refs = EmptyBag
  /\ call = [fn |-> "start"]
  /\ ret = None
  /\ aborted = FALSE
  /\ objs = <<>>
  /\ results = <<>>

SpecPlatform == InitPlatform /\ [][Next]_vars

(***************************************************************************)
(* A client of the traitcast module.                                       *)
(***************************************************************************)
\* the trait lists a client can write in a macro call on an instance of t
TraitLists(t) == UNION {[1..n -> Coercions(t)] : n \in 1..MaxList}

\* the outcome of a provider call: a panic stops the program, a wrapper
\* handed back is kept by the caller
Provided(r) ==
  IF r.panic
    THEN /\ aborted' = TRUE
         /\ UNCHANGED wrappers
    ELSE /\ UNCHANGED aborted
         /\ IF r.val.some
              THEN RoomForWrapper /\ wrappers' = Put(wrappers, r.val.val)
              ELSE UNCHANGED wrappers

\* match_dyn_type_id!(&instance, type_id => traits...)
MatchDynTypeId(a, type_id, traits) ==
  /\ ~aborted
  /\ CanBorrow(a)
  /\ LET r == match_dyn_type_id(a, type_id, traits, layouts)
     IN /\ Provided(r)
        /\ ret' = r
  /\ call' = [fn |-> "match_dyn_type_id", obj |-> a, type_id |-> type_id,
              traits |-> traits, arm |-> MatchArm(type_id, traits, 1)]
  /\ UNCHANGED <<layouts, objs, results, refs>>

\* match_dyn_type_id_mut!(&mut instance, type_id => traits...)
MatchDynTypeIdMut(a, type_id, traits) ==
  /\ ~aborted
  /\ CanBorrowMut(a)
  /\ LET r == match_dyn_type_id_mut(a, type_id, traits, layouts)
     IN /\ Provided(r)
        /\ ret' = r
  /\ call' = [fn |-> "match_dyn_type_id_mut", obj |-> a, type_id |-> type_id,
              traits |-> traits, arm |-> MatchArm(type_id, traits, 1)]
  /\ UNCHANGED <<layouts, objs, results, refs>>

\* obj.as_trait_object(type_id) on a `&dyn AsTraitObject`
AsTraitObject(a, type_id) ==
  /\ ~aborted
  /\ CanBorrow(a)
  /\ LET r == as_trait_object(a, type_id, layouts)
     IN /\ Provided(r)
        /\ ret' = r
  /\ call' = [fn |-> "as_trait_object", obj |-> a, type_id |-> type_id]
  /\ UNCHANGED <<layouts, objs, results, refs>>

\* cast_trait_object::<Dyn>(obj): the AnyDyn in between is a temporary
CastTraitObject(a, Dyn) ==
  /\ ~aborted
  /\ CanBorrow(a)
  /\ LET r == cast_trait_object(a, Dyn, layouts)
     IN /\ IF r.panic
             THEN aborted' = TRUE /\ UNCHANGED refs
             ELSE /\ UNCHANGED aborted
                  /\ IF r.val.some
                       THEN RoomForRef /\ refs' = Put(refs, r.val.val)
                       ELSE UNCHANGED refs
        /\ ret' = r
  /\ call' = [fn |-> "cast_trait_object", obj |-> a, dyn |-> Dyn]
  /\ UNCHANGED <<layouts, objs, results, wrappers>>

NextCast ==
  \/ \E a \in Instances, id \in DynTypeIds :
       \E traits \in TraitLists(Heap[a]) : MatchDynTypeId(a, id, traits)
  \/ \E a \in Instances, id \in DynTypeIds :
       \E traits \in TraitLists(Heap[a]) : MatchDynTypeIdMut(a, id, traits)
  \/ \E a \in Instances, id \in DynTypeIds : AsTraitObject(a, id)
  \/ \E a \in Instances, Dyn \in Traits : CastTraitObject(a, Dyn)
  \/ \E w \in BagToSet(wrappers), Dyn \in Traits : Cast(w, Dyn)
  \/ \E r \in BagToSet(refs) : CallMethod(r)
  \/ \E w \in BagToSet(wrappers) : DropWrapper(w)
  \/ \E r \in BagToSet(refs) : DropRef(r)

SpecCast == Init /\ [][NextCast]_vars

(***************************************************************************)
(* A client that keeps a table of owning handles (Box<dyn AsTraitObject>,  *)
(* Arc<dyn AsTraitObject>) and asks each for `dyn WithMessage`, as the     *)
(* tests `dyn_handles` and `arced` do.                                     *)
(***************************************************************************)
\* a handle that has not been asked yet
Pending == [queried |-> FALSE]

\* the tables of boxes: each box owns an instance of its own
HandleTables ==
  {t \in UNION {[1..n -> Addrs] : n \in 1..MaxObjs} :
     \A i, j \in DOMAIN t : t[i] = t[j] => i = j}

InitHandles ==
  /\ layouts = UniformLayouts
  /\ wrappers = EmptyBag
  /\ refs = EmptyBag
  /\ call = [fn |-> "start"]
  /\ ret = None
  /\ aborted = FALSE
  /\ objs \in HandleTables
  /\ results = [i \in DOMAIN objs |-> Pending]

\* Arc::clone(&objs[i]): one more owner of the same instance
CloneHandle(i) ==
  /\ ~aborted
  /\ i \in DOMAIN objs
  /\ Len(objs) < MaxObjs
  /\ objs' = Append(objs, objs[i])
  /\ results' = Append(results, Pending)
  /\ call' = [fn |-> "Arc::clone"]
  /\ ret' = None
  /\ UNCHANGED <<layouts, wrappers, refs, aborted>>

\* if let Some(with_msg) = cast_trait_object::<dyn WithMessage>(&*objs[i])
\*   { Some(with_msg.message()) } else { None }
QueryHandle(i) ==
  /\ ~aborted
  /\ i \in DOMAIN objs
  /\ LET r == cast_trait_object(objs[i], "WithMessage", layouts)
     IN IF r.panic
          THEN aborted' = TRUE /\ UNCHANGED results
          ELSE /\ UNCHANGED aborted
               /\ IF r.val.some
                    THEN \E out \in CallOutcomes(r.val.val.ref) :
                           results' = [results EXCEPT ![i] =
                                         Some([ref |-> r.val.val, msg |-> out])]
                    ELSE results' = [results EXCEPT ![i] = None]
  /\ call' = [fn |-> "dyn_handles"]
  /\ ret' = None
  /\ UNCHANGED <<layouts, wrappers, refs, objs>>

NextHandles ==
  \/ \E i \in 1..MaxObjs : CloneHandle(i)
  \/ \E i \in 1..MaxObjs : QueryHandle(i)

SpecHandles == InitHandles /\ [][NextHandles]_vars

(***************************************************************************)
(* A client whose providers write as_trait_object by hand.  The signature  *)
(* lets an implementation answer any identity with any AnyDyn<'a> it can   *)
(* build from `&'a self`, that is with a wrapper made through any trait    *)
(* its type implements.                                                    *)
(***************************************************************************)
CastTraitObjectThrough(a, Dyn, K) ==
  /\ ~aborted
  /\ CanBorrow(a)
  /\ K \in Coercions(Heap[a])
  /\ LET r == cast_trait_object_through(a, Dyn, K, layouts)
     IN /\ IF r.panic
             THEN aborted' = TRUE /\ UNCHANGED refs
             ELSE /\ UNCHANGED aborted
                  /\ IF r.val.some
                       THEN RoomForRef /\ refs' = Put(refs, r.val.val)
                       ELSE UNCHANGED refs
        /\ ret' = r
  /\ call' = [fn |-> "cast_trait_object/through", obj |-> a, dyn |-> Dyn,
              through |-> K]
  /\ UNCHANGED <<layouts, objs, results, wrappers>>

NextProvider ==
  \/ \E a \in Instances, Dyn \in Traits, K \in Traits :
       CastTraitObjectThrough(a, Dyn, K)
  \/ \E a \in Instances, Dyn \in Traits : CastTraitObject(a, Dyn)
  \/ \E r \in BagToSet(refs) : CallMethod(r)
  \/ \E r \in BagToSet(refs) : DropRef(r)

SpecProvider == Init /\ [][NextProvider]_vars

(***************************************************************************)
(* Properties of the erased pointers.                                      *)
(***************************************************************************)
\* the trait whose vtable the erased metadata of a wrapper points at: the
\* trait the metadata was captured from
CapturedTrait(w) == VTableAt(w.ptr.metadata.vtable_ptr).trait

\* the instance whose concrete type that vtable belongs to
CapturedType(w) == VTableAt(w.ptr.metadata.vtable_ptr).ctype

NewFns == {"AnyDyn::new", "AnyDynMut::new", "AnyDynPtr::new"}

\* C1: cast::<J> on a wrapper built from a reference through I is non-empty
\* if and only if J = I; it is empty for every other J, also for a J the
\* instance implements.  Every wrapper alive was built through the trait its
\* metadata was taken from.
C1_CastMatchesOnlyCapturedTrait ==
  /\ \A w \in BagToSet(wrappers) :
       /\ ThinOf(w) \in Addrs
       /\ CapturedType(w) = Heap[ThinOf(w)]
       /\ CapturedTrait(w) \in Coercions(Heap[ThinOf(w)])
  /\ call.fn \in NewFns /\ ~ret.panic =>
       /\ CapturedTrait(ret.val) = call.from.dyn
       /\ ThinOf(ret.val) = call.from.thin
  /\ call.fn = "cast" =>
       (ret.some <=> call.dyn = CapturedTrait(call.self))

\* a cast to another trait the instance implements came back empty
C1_Witness ==
  /\ call.fn = "cast"
  /\ CapturedTrait(call.self) = "SomeTrait"
  /\ call.dyn = "SomeOtherTrait"
  /\ call.dyn \in Impls(Heap[ThinOf(call.self)])
  /\ ~ret.some

\* C2: a wrapper built from a reference R through I and cast to I at once
\* gives back R: same instance address, same dispatch metadata, and so the
\* same result for every method call.
C2_RoundTrip ==
  [][ /\ ( /\ call.fn \in NewFns
           /\ ~ret.panic
           /\ call'.fn = "cast"
           /\ call'.self = ret.val
           /\ call'.dyn = call.from.dyn )
         => /\ ret'.some
            /\ ret'.val.ref = call.from
            /\ CallOutcomes(ret'.val.ref) = CallOutcomes(call.from)
      /\ call'.fn = "method" =>
           ret' = Some(MethodResult(Heap[call'.ref.ref.thin], call'.ref.ref.dyn))
    ]_vars

\* the reference to the Implementer through WithMessage came back from a cast
C2_Witness ==
  /\ call.fn = "cast"
  /\ ret.some
  /\ ret.val.ref = DynRef(1, "WithMessage")
  /\ CallOutcomes(ret.val.ref) = {"hello from implementer"}

\* C3: the tag of every wrapper is the identity of the trait its metadata was
\* captured from, a cast reads the metadata as trait J only when J's identity
\* equals the tag, and so every reference handed out carries metadata of its
\* own trait.
C3_MetadataOnlyReadAsCaptured ==
  /\ \A w \in BagToSet(wrappers) :
       w.ptr.type_id = TypeIdOf(CapturedTrait(w))
  /\ call.fn = "cast" /\ ret.some =>
       /\ TypeIdOf(call.dyn) = call.self.ptr.type_id
       /\ ret.val.ref.metadata.dyn = CapturedTrait(call.self)
  /\ \A r \in BagToSet(refs) :
       /\ VTableAt(r.ref.metadata.vtable_ptr).trait = r.ref.dyn
       /\ r.ref.metadata.dyn = r.ref.dyn

\* a wrapper that went through as_ptr and from_raw was cast and matched
C3_Witness ==
  /\ call.fn = "cast"
  /\ ret.some
  /\ call.self.kind = "AnyDynMut"
  /\ \E w \in BagToSet(wrappers) : w.kind = "AnyDynPtr" /\ w.ptr = call.self.ptr

\* the number of exclusive references to the instance at a that are alive
ExclusiveRefsTo(a) ==
  LET rs == {r \in BagToSet(refs) : r.mode = "mut" /\ r.ref.thin = a}
      RECURSIVE Sum(_)
      Sum(S) == IF S = {} THEN 0
                ELSE LET r == CHOOSE x \in S : TRUE
                     IN CopiesIn(r, refs) + Sum(S \ {r})
  IN Sum(rs)

\* C4: an AnyDynMut permits at most one live exclusive reference to the
\* instance: copies and casts of a wrapper built from one exclusive reference
\* never give two exclusive references to the same instance alive at once.
C4_AtMostOneExclusiveRef ==
  \A a \in Addrs : ExclusiveRefsTo(a) <= 1

\* C5: casts with the same target on the same opaque reference return the
\* same result every time, a result built from the reference's own fields,
\* and a cast, matching or not, leaves every opaque reference as it was.
C5_CastIdempotent ==
  [][ call'.fn = "cast" =>
        /\ wrappers' = wrappers
        /\ ( /\ call.fn = "cast"
             /\ call.self.ptr = call'.self.ptr
             /\ call.dyn = call'.dyn )
           => ret'.some = ret.some /\ (ret.some => ret'.val.ref = ret.val.ref)
        /\ ret'.some =>
             /\ ret'.val.ref.thin = call'.self.ptr.thin
             /\ ret'.val.ref.metadata.vtable_ptr = call'.self.ptr.metadata.vtable_ptr
    ]_vars

\* the same matching cast was made twice on one AnyDynPtr: both references
\* are alive and equal, and the pointer is still held
C5_Witness ==
  /\ call.fn = "cast"
  /\ call.self.kind = "AnyDynPtr"
  /\ ret.some
  /\ CopiesIn(ret.val, refs) = 2
  /\ call.self \in BagToSet(wrappers)

(***************************************************************************)
(* Properties of the traitcast helpers.                                    *)
(***************************************************************************)
\* the trait an identity denotes
TraitOfId(id) == CHOOSE i \in Traits : DynTypeId_of(i) = id

\* the reference cast::<Dyn> rebuilds from an AnyDyn
RebuiltRef(w, Dyn) ==
  [ref |-> [dyn |-> Dyn, thin |-> w.ptr.thin,
            metadata |-> [dyn |-> Dyn, vtable_ptr |-> w.ptr.metadata.vtable_ptr]],
   mode |-> "shared"]

\* C6: cast_trait_object::<J>(provider) asks the provider for the identity of
\* J; it returns a reference through J exactly when the provider answered
\* with a wrapper whose tag is J's identity, a reference to the instance that
\* wrapper holds, and it returns empty when the provider answered empty.
C6_CastTraitObject ==
  call.fn = "cast_trait_object" =>
    LET any == as_trait_object(call.obj, DynTypeId_of(call.dyn), layouts)
    IN /\ ~any.panic
       /\ ~ret.panic
       /\ ~any.val.some => ret.val = None
       /\ ret.val.some <=>
            (any.val.some /\ any.val.val.ptr.type_id = TypeIdOf(call.dyn))
       /\ ret.val.some =>
            /\ ret.val.val = RebuiltRef(any.val.val, call.dyn)
            /\ ret.val.val.ref.thin = call.obj
            /\ ret.val.val.ref = DynRef(call.obj, call.dyn)

\* the Implementer, asked for WithMessage, as in the test `boxed`
C6_Witness ==
  /\ call.fn = "cast_trait_object"
  /\ Heap[call.obj] = "Implementer"
  /\ call.dyn = "WithMessage"
  /\ ret.val.some
  /\ CallOutcomes(ret.val.val.ref) = {"hello from implementer"}

\* C7: a provider that keeps the provided as_trait_object answers empty for
\* every identity, also for the identity of a trait its type implements, and
\* so cast_trait_object on it is empty for every target.
C7_DefaultSupportsNothing ==
  /\ call.fn = "as_trait_object" /\ ~OverridesAsTraitObject(Heap[call.obj]) =>
       ret = Ok(None)
  /\ call.fn = "cast_trait_object" /\ ~OverridesAsTraitObject(Heap[call.obj]) =>
       ret = Ok(None)

\* the NotImplementer was asked for AsTraitObject, which it implements
C7_Witness ==
  /\ call.fn = "as_trait_object"
  /\ Heap[call.obj] = "NotImplementer"
  /\ TraitOfId(call.type_id) \in Impls(Heap[call.obj])
  /\ ret = Ok(None)

MatchFns == {"match_dyn_type_id", "match_dyn_type_id_mut"}

\* the entries of a trait list whose identity is the requested one
Matching(traits, type_id) ==
  {i \in DOMAIN traits : DynTypeId_of(traits[i]) = type_id}

\* the smallest member of a non-empty set of indices
Least(S) == CHOOSE i \in S : \A j \in S : i <= j

\* C8: the chain match_dyn_type_id (and match_dyn_type_id_mut) generates from
\* a list L returns a wrapper over self through the first entry of L whose
\* identity is the requested one, and empty when L has no such entry; of two
\* entries for one trait the earlier is taken.
C8_FirstMatchWins ==
  call.fn \in MatchFns =>
    LET hits == Matching(call.traits, call.type_id)
    IN /\ ~ret.panic
       /\ hits = {} => ret.val = None /\ call.arm = 0
       /\ hits # {} =>
            /\ call.arm = Least(hits)
            /\ ret.val.some
            /\ ret.val.val.kind =
                 (IF call.fn = "match_dyn_type_id" THEN "AnyDyn" ELSE "AnyDynMut")
            /\ ThinOf(ret.val.val) = call.obj
            /\ CapturedTrait(ret.val.val) = call.traits[Least(hits)]
            /\ CapturedType(ret.val.val) = Heap[call.obj]
            /\ ret.val.val.ptr.type_id = call.type_id.type_id

\* a list naming one trait twice was asked for that trait
C8_Witness ==
  /\ call.fn \in MatchFns
  /\ Cardinality(Matching(call.traits, call.type_id)) = 2
  /\ call.arm = 1
  /\ ret.val.some

\* the orderings of a list
Orderings(traits) ==
  {p \in [DOMAIN traits -> Range(traits)] :
     \A i \in DOMAIN traits : \E j \in DOMAIN traits : p[j] = traits[i]}

Distinct(traits) ==
  \A i, j \in DOMAIN traits : traits[i] = traits[j] => i = j

\* C9: for a list of pairwise distinct traits, the chain generated from any
\* ordering of the list returns what the chain generated from the list
\* returned: a wrapper for the same trait over the same instance, or empty.
C9_OrderIndependent ==
  call.fn \in MatchFns /\ Distinct(call.traits) =>
    \A p \in Orderings(call.traits) :
      ret = (IF call.fn = "match_dyn_type_id"
               THEN match_dyn_type_id(call.obj, call.type_id, p, layouts)
               ELSE match_dyn_type_id_mut(call.obj, call.type_id, p, layouts))

\* the second trait of a two-trait list was asked for and found
C9_Witness ==
  /\ call.fn \in MatchFns
  /\ Len(call.traits) = 2
  /\ Distinct(call.traits)
  /\ call.arm = 2
  /\ ret.val.some

\* C10: the identities of two traits are equal only if the traits are the
\* same, so a provider listing X and Y answers empty, and cast_trait_object
\* returns empty, for every trait Z that is neither.
C10_NoFalsePositive ==
  /\ \A i, j \in Traits : DynTypeId_of(i) = DynTypeId_of(j) <=> i = j
  /\ call.fn \in MatchFns =>
       \A Z \in Traits :
         (call.type_id = DynTypeId_of(Z) /\ Z \notin Range(call.traits))
           => ret = Ok(None)
  /\ call.fn = "as_trait_object" =>
       \A Z \in Traits :
         (call.type_id = DynTypeId_of(Z)
            /\ Z \notin Range(ProvidedTraits(Heap[call.obj])))
           => ret = Ok(None)
  /\ call.fn = "cast_trait_object"
       /\ call.dyn \notin Range(ProvidedTraits(Heap[call.obj]))
       => ret = Ok(None)

\* SomeStruct, which provides SomeTrait and SomeOtherTrait, was asked for
\* WithMessage
C10_Witness ==
  /\ call.fn = "cast_trait_object"
  /\ Heap[call.obj] = "SomeStruct"
  /\ Len(ProvidedTraits(Heap[call.obj])) = 2
  /\ call.dyn = "WithMessage"
  /\ ret = Ok(None)

(***************************************************************************)
(* Properties of the failure modes.                                        *)
(***************************************************************************)
\* C11: a constructor called for a trait whose metadata layout differs from
\* the layout of DynMetadata<()> panics there and then: no wrapper is made,
\* nothing else changes and the program goes no further.  Called for a trait
\* whose layout agrees it always returns a wrapper.  So no wrapper alive
\* holds metadata of a trait with a differing layout.
C11_LayoutMismatchAborts ==
  [][ /\ ~aborted
      /\ call'.fn \in NewFns =>
           /\ ret'.panic <=> layouts[call'.from.dyn] # ErasedLayout
           /\ ret'.panic =>
                /\ aborted'
                /\ wrappers' = wrappers
                /\ refs' = refs
           /\ ~ret'.panic =>
                /\ ~aborted'
                /\ wrappers' = Put(wrappers, ret'.val)
                /\ CapturedTrait(ret'.val) = call'.from.dyn
      /\ \A w \in BagToSet(wrappers') :
           layouts[CapturedTrait(w)] = ErasedLayout
    ]_vars

\* a constructor panicked after another trait had been erased without trouble
C11_Witness ==
  /\ call.fn \in NewFns
  /\ layouts[call.from.dyn] = WideLayout
  /\ ret = Panic
  /\ aborted
  /\ \E w \in BagToSet(wrappers) : layouts[CapturedTrait(w)] = ErasedLayout

Supports(a, Dyn) ==
  /\ OverridesAsTraitObject(Heap[a])
  /\ Dyn \in Range(ProvidedTraits(Heap[a]))

\* the handles that have been asked
Asked == {i \in DOMAIN results : results[i] # Pending}

\* C13: for any table of providers, asking each element for WithMessage with
\* cast_trait_object gives, at each position asked, a non-empty result exactly
\* when that element's provider lists WithMessage, whatever the other
\* elements are and in whatever order the elements are asked: a query fills
\* the asked position only and leaves the table alone.  For the table
\* [Implementer, NotImplementer, Implementer, NotImplementer] of the test
\* `dyn_handles` the results are [Some(message), None, Some(message), None].
C13_PerElementLookup ==
  [][ /\ ~aborted'
      /\ DOMAIN results' = DOMAIN objs'
      /\ \A i \in DOMAIN results' :
           results'[i] # Pending =>
             /\ results'[i].some <=> Supports(objs'[i], "WithMessage")
             /\ results'[i].some =>
                  results'[i].val.msg = "hello from implementer"
      /\ call'.fn = "dyn_handles" =>
           /\ objs' = objs
           /\ \E i \in DOMAIN results :
                \A j \in DOMAIN results \ {i} : results'[j] = results[j]
      /\ ( /\ [i \in DOMAIN objs' |-> Heap[objs'[i]]] =
                <<"Implementer", "NotImplementer",
                  "Implementer", "NotImplementer">>
           /\ \A i \in DOMAIN results' : results'[i] # Pending )
         => [i \in DOMAIN results' |->
               IF results'[i].some THEN Some(results'[i].val.msg) ELSE None] =
            <<Some("hello from implementer"), None,
              Some("hello from implementer"), None>>
    ]_vars

\* the table of the test `dyn_handles`, four boxes of four instances, each
\* asked
C13_Witness ==
  /\ objs = <<1, 2, 4, 5>>
  /\ [i \in DOMAIN objs |-> Heap[objs[i]]] =
       <<"Implementer", "NotImplementer", "Implementer", "NotImplementer">>
  /\ Asked = 1..4
  /\ results[1].some /\ ~results[2].some
  /\ results[3].some /\ ~results[4].some
  /\ results[3].val.msg = "hello from implementer"
  /\ call.fn = "dyn_handles"

\* two handles that own the same instance
CoOwners ==
  {p \in (DOMAIN objs) \X (DOMAIN objs) :
     p[1] # p[2] /\ objs[p[1]] = objs[p[2]]}

\* C14: when two owning handles share an instance, a cast through one of them
\* gives a reference to the instance the other handle owns, whose method
\* reports what a direct call through the other handle reports; casts
\* through both give the same reference and result; and a cast changes
\* neither the table of handles nor what was found through other handles,
\* and leaves no erased pointer behind.
C14_SharedInstance ==
  [][ /\ ~aborted'
      /\ \A i, j \in DOMAIN objs' :
           (i # j /\ objs'[i] = objs'[j] /\ results'[i] # Pending) =>
             /\ results'[i].some =>
                  /\ results'[i].val.ref.ref.thin = objs'[j]
                  /\ results'[i].val.ref.mode = "shared"
                  /\ results'[i].val.msg =
                       MethodResult(Heap[objs'[j]], "WithMessage")
             /\ results'[j] # Pending => results'[j] = results'[i]
      /\ call'.fn = "dyn_handles" =>
           /\ objs' = objs
           /\ wrappers' = wrappers
           /\ refs' = refs
           /\ \E i \in DOMAIN results :
                \A j \in DOMAIN results \ {i} :
                  objs'[j] = objs[j] /\ results'[j] = results[j]
    ]_vars

\* the test `arced`: an Implementer with two owners, asked through both
C14_Witness ==
  \E p \in CoOwners :
    /\ Heap[objs[p[1]]] = "Implementer"
    /\ results[p[1]] # Pending
    /\ results[p[1]].some
    /\ results[p[2]] = results[p[1]]
    /\ results[p[1]].val.ref.ref.thin = objs[p[2]]
    /\ call.fn = "dyn_handles"

\* C15: cast_trait_object::<J> on a provider that answers J's identity with a
\* wrapper built through another trait K returns empty, without a trap and
\* without a change of state: the comparison of the wrapper's tag with J's
\* identity applies whoever built the wrapper.  It returns a reference only
\* when the wrapper was built through J, and then the reference to the
\* provider as `dyn J`; no reference handed out reads K's table as J's.
C15_MismatchedProviderIsEmpty ==
  [][ /\ call'.fn = "cast_trait_object/through" =>
           /\ ~ret'.panic
           /\ ~aborted'
           /\ ret'.val.some <=> call'.through = call'.dyn
           /\ call'.through # call'.dyn =>
                /\ ret' = Ok(None)
                /\ refs' = refs
                /\ wrappers' = wrappers
           /\ ret'.val.some =>
                /\ ret'.val.val.ref = DynRef(call'.obj, call'.dyn)
                /\ refs' = Put(refs, ret'.val.val)
      /\ \A r \in BagToSet(refs') :
           CallOutcomes(r.ref) =
             {MethodResult(Heap[r.ref.thin], r.ref.dyn)}
    ]_vars

\* SomeStruct implements SomeTrait and SomeOtherTrait; asked for SomeTrait it
\* answers with a wrapper of itself as `dyn SomeOtherTrait`
C15_Witness ==
  /\ call.fn = "cast_trait_object/through"
  /\ Heap[call.obj] = "SomeStruct"
  /\ call.dyn = "SomeTrait"
  /\ call.through = "SomeOtherTrait"
  /\ {call.dyn, call.through} \subseteq Impls(Heap[call.obj])
  /\ ret = Ok(None)
  /\ ~aborted

\* AnyDyn::from_raw or AnyDynMut::from_raw, as the kind of wrapper asks
FromRawAs(kind, ptr) ==
  IF kind = "AnyDyn" THEN AnyDyn_from_raw(ptr) ELSE AnyDynMut_from_raw(ptr)

\* C16: a copy of a wrapper, the raw pointer as_ptr gives and the wrapper
\* from_raw rebuilds from it carry the data address, the metadata and the
\* tag of the original, so cast::<J> on them succeeds or fails, and gives
\* the same address and metadata, as on the original for every J; as_ptr and
\* from_raw change none of the three fields and leave the original as it was.
C16_CopyAndRawRoundTrip ==
  [][ /\ call'.fn = "copy" =>
           /\ ret'.val = call'.self
           /\ \A J \in Traits :
                Wrapper_cast(ret'.val, J) = Wrapper_cast(call'.self, J)
           /\ wrappers' = Put(wrappers, call'.self)
      /\ call'.fn = "as_ptr" =>
           /\ ret'.val.kind = "AnyDynPtr"
           /\ ret'.val.ptr.thin = call'.self.ptr.thin
           /\ ret'.val.ptr.metadata = call'.self.ptr.metadata
           /\ ret'.val.ptr.type_id = call'.self.ptr.type_id
           /\ FromRawAs(call'.self.kind, ret'.val.ptr) = call'.self
           /\ \A J \in Traits :
                /\ Wrapper_cast(FromRawAs(call'.self.kind, ret'.val.ptr), J) =
                     Wrapper_cast(call'.self, J)
                /\ AnyDynPtr_cast(ret'.val.ptr, J) =
                     AnyDynPtr_cast(call'.self.ptr, J)
           /\ wrappers' = Put(wrappers, ret'.val)
           /\ call'.self \in BagToSet(wrappers')
      /\ call'.fn \in {"AnyDyn::from_raw", "AnyDynMut::from_raw"} =>
           /\ ret'.val.ptr = call'.self.ptr
           /\ \A J \in Traits :
                AnyDynPtr_cast(ret'.val.ptr, J) =
                  AnyDynPtr_cast(call'.self.ptr, J)
           /\ wrappers' = Put(wrappers, ret'.val)
           /\ call'.self \in BagToSet(wrappers')
      /\ call'.fn \in {"copy", "as_ptr", "AnyDyn::from_raw",
                       "AnyDynMut::from_raw"} =>
           /\ refs' = refs
           /\ ~aborted'
    ]_vars

\* an AnyDyn made from `&dyn WithMessage` and the raw pointer as_ptr gave for
\* it, from which from_raw rebuilds the AnyDyn and cast finds WithMessage
C16_Witness ==
  /\ call.fn = "as_ptr"
  /\ call.self.kind = "AnyDyn"
  /\ CapturedTrait(call.self) = "WithMessage"
  /\ ret.val = RawWrapper(call.self.ptr)
  /\ {call.self, ret.val} \subseteq BagToSet(wrappers)
  /\ AnyDyn_cast(AnyDyn_from_raw(ret.val.ptr), "WithMessage").some
  /\ ~AnyDyn_cast(AnyDyn_from_raw(ret.val.ptr), "AsTraitObject").some

====
